---- MODULE Spec2Model ----
(***************************************************************************)
(* Model of bevy_web_asset's WebAssetIo (src/src/web_asset_io.rs): the     *)
(* asset-io router that sends http(s) paths to a remote fetch (with the    *)
(* browser Cache API and ETag revalidation on wasm32, a plain surf GET     *)
(* natively) and every other path to the wrapped default AssetIo.          *)
(***************************************************************************)
EXTENDS Integers, Sequences, FiniteSets, TLC

(***************************************************************************)
(* Paths.  A path is the sequence of the characters of its string form.    *)
(***************************************************************************)
P_http_a      == <<"h","t","t","p",":","/","/","a">>
P_https_a     == <<"h","t","t","p","s",":","/","/","a">>
P_http_1slash == <<"h","t","t","p",":","/","x">>
P_http_colon  == <<"h","t","t","p",":">>
P_httpx       == <<"h","t","t","p","x",":","/","/","a">>
P_http_nosep  == <<"h","t","t","p",":","a">>
P_local       == <<"a","/","b">>
P_abs         == <<"/","h","t","t","p",":","/","/","a">>
P_dot         == <<".","/","h","t","t","p",":","/","/","a">>

\* The string literals of is_http.
S_http  == <<"h","t","t","p",":","/","/">>
S_https == <<"h","t","t","p","s",":","/","/">>

\* Every path the router operations are applied to.
SamplePaths == {P_http_a, P_https_a, P_http_1slash, P_http_colon, P_httpx,
                P_http_nosep, P_local, P_abs, P_dot}

\* The paths watch_path_for_changes is applied to.
WatchPaths == {P_http_a, P_https_a, P_http_1slash, P_local, P_abs}

\* The paths load_path is applied to while fetches are interleaved.
LoadPaths == {P_http_a, P_local}

\* The asset root of the router (self.root_path).
root_path == <<"/","g">>

Sep == "/"

has_root(p) == Len(p) > 0 /\ p[1] = Sep

\* The pieces of p between separators, from index i on, cur being the piece
\* read so far; empty pieces (repeated separators) are dropped.
RECURSIVE Pieces(_, _, _)
Pieces(p, i, cur) ==
    IF i > Len(p)
    THEN IF cur = <<>> THEN <<>> ELSE <<cur>>
    ELSE IF p[i] = Sep
         THEN (IF cur = <<>> THEN <<>> ELSE <<cur>>) \o Pieces(p, i + 1, <<>>)
         ELSE Pieces(p, i + 1, Append(cur, p[i]))

\* "." pieces are dropped, except a leading one of a path without root.
RECURSIVE DropCurDir(_, _)
DropCurDir(ps, first) ==
    IF ps = <<>> THEN <<>>
    ELSE IF Head(ps) = <<".">> /\ ~first
         THEN DropCurDir(Tail(ps), FALSE)
         ELSE <<Head(ps)>> \o DropCurDir(Tail(ps), FALSE)

\* std::path::Path::components: RootDir is the piece <<"/">>, which no
\* normal component can be.
Components(p) ==
    IF has_root(p)
    THEN <<<<Sep>>>> \o DropCurDir(Pieces(p, 1, <<>>), FALSE)
    ELSE DropCurDir(Pieces(p, 1, <<>>), TRUE)

IsPrefixSeq(a, b) == Len(a) <= Len(b) /\ SubSeq(b, 1, Len(a)) = a

\* The prefix test a string comparison would make (str::starts_with).
StrStartsWith(p, base) == IsPrefixSeq(base, p)

\* std::path::Path::starts_with: base's components are a prefix of p's.
PathStartsWith(p, base) == IsPrefixSeq(Components(base), Components(p))

is_http(path) == PathStartsWith(path, S_http) \/ PathStartsWith(path, S_https)

\* is_http on the sample paths, evaluated once per path: the operations below
\* read the classification of their path here.
IsHttp == [p \in SamplePaths |-> is_http(p)]

\* Path::to_str of a path made from a string: the same characters.
to_str(path) == path

\* PathBuf::join: an absolute argument replaces the receiver.
Join(base, p) ==
    IF has_root(p) THEN p
    ELSE IF Len(base) > 0 /\ base[Len(base)] # Sep THEN base \o <<Sep>> \o p
         ELSE base \o p

(***************************************************************************)
(* Header maps (HashMap<String, String>, web_sys::Headers): sets of        *)
(* <<name, value>> pairs with at most one pair per name.                    *)
(***************************************************************************)
NoHeaders == {}
HasHeader(h, n) == \E e \in h : e[1] = n
GetHeader(h, n) == (CHOOSE e \in h : e[1] = n)[2]
SetHeader(h, n, v) == {e \in h : e[1] # n} \cup {<<n, v>>}

H_TEST == "X-Test"
H_INM  == "If-None-Match"
H_ETAG == "etag"

\* Bounds of the model.
MaxLoads == 2        \* load_path calls while fetches are interleaved
MaxRouterLoads == 1  \* load_path calls interleaved with the synchronous operations
MaxVer == 2          \* versions of the resource the origin serves
MaxVal == 1          \* values a caller gives the X-Test header

NOT_MODIFIED == 304
OK_STATUS == 200
ERR_STATUS == 500

\* Option<T>
None == <<>>
Some(v) == <<v>>
IsSome(o) == o # <<>>
Unwrap(o) == o[1]

(***************************************************************************)
(* The origin (environment).  It serves one resource, in version `origin`: *)
(* version v has the body <<v>>; versions 1.. carry the ETag v, version 0  *)
(* is served without ETag.  It is a conforming HTTP origin: it answers 304 *)
(* exactly to a request whose If-None-Match equals its current ETag; any   *)
(* request may also be answered by a server error.                         *)
(***************************************************************************)
Versions == 0 .. MaxVer
Body(v) == <<v>>
ErrBody == <<ERR_STATUS>>
EtagHeaders(v) == IF v >= 1 THEN {<<H_ETAG, v>>} ELSE NoHeaders

Response(st, hs, b) == [status |-> st, headers |-> hs, body |-> b]

OriginAnswers(req, v) ==
    IF v >= 1 /\ HasHeader(req, H_INM) /\ GetHeader(req, H_INM) = v
    THEN {Response(NOT_MODIFIED, EtagHeaders(v), <<>>)}
    ELSE {Response(OK_STATUS, EtagHeaders(v), Body(v)),
          Response(ERR_STATUS, NoHeaders, ErrBody)}

(***************************************************************************)
(* Results of load_path.                                                   *)
(***************************************************************************)
Pending       == [kind |-> "Pending",  bytes |-> <<>>, path |-> <<>>, at |-> ""]
Ok(bytes)     == [kind |-> "Ok",       bytes |-> bytes, path |-> <<>>, at |-> ""]
NotFound(p)   == [kind |-> "NotFound", bytes |-> <<>>, path |-> p, at |-> ""]
\* An unwrap() of an Err at the await `at`: the future panics, nothing is
\* returned.
Panicked(at)  == [kind |-> "Panic",    bytes |-> <<>>, path |-> <<>>, at |-> at]

VARIABLES
    wasm,      \* cfg(target_arch = "wasm32")
    headers,   \* WebAssetIo::headers, shared with the host
    cache,     \* the browser cache named cache_name: set of <<uri, response>>
    origin,    \* the version the origin serves
    loads,     \* the load_path calls made so far, one record each
    watcher,   \* WebAssetIo::filesystem_watcher holds Some(watcher)
    watched,   \* the paths registered with the watcher
    last       \* the most recent synchronous router call and what it did

vars == <<wasm, headers, cache, origin, loads, watcher, watched, last>>

\* The cache is a map from uri to response, kept as a set of pairs.
CacheHas(c, uri) == \E e \in c : e[1] = uri
CacheGet(c, uri) == (CHOOSE e \in c : e[1] = uri)[2]

\* CachePut that keeps an entry already stored for the uri.
CachePut_KeepsFirst(c, uri, r) == IF CacheHas(c, uri) THEN c ELSE c \cup {<<uri, r>>}

\* cache.put_with_str_and_response: the entry of the uri is replaced.
CachePut(c, uri, r) == {e \in c : e[1] # uri} \cup {<<uri, r>>}

\* A synchronous router call: the operation, its path, what it returned (err
\* is the path an error carries), the call it made to default_io with that
\* call's result, and the path it handed to the watcher.
Call(op, path, ret, err, io, watch) ==
    [op |-> op, path |-> path, ret |-> ret, err |-> err, io |-> io, watch |-> watch]
IoCall(op, path, ret) == [op |-> op, path |-> path, ret |-> ret]
NoCall == Call("none", <<>>, "none", <<>>, None, None)

Init ==
    /\ wasm \in BOOLEAN
    /\ headers = NoHeaders
    /\ cache = {}
    /\ origin \in Versions
    /\ loads = <<>>
    /\ watcher \in BOOLEAN
    /\ watched = {}
    /\ last = NoCall

(***************************************************************************)
(* load_path                                                               *)
(***************************************************************************)
\* RequestHeaders with the registry read when the request is built.
RequestHeaders_AtSend(snapshot, registry) == registry

\* The headers the request of a load is built from (line 31: the clone taken
\* in load_path itself, before the future is created).
RequestHeaders(snapshot, registry) == snapshot

\* GuardAfterSnapshot with the read guard bound outside the block of line 31,
\* so that the future keeps it.
GuardAfterSnapshot_Kept == TRUE

\* Whether the future of a load holds the read guard of the header registry:
\* line 31 takes it inside a block, `{ self.headers.read().unwrap().clone() }`,
\* which drops it before the future is created.
GuardAfterSnapshot == FALSE

\* A new load record.  started, ans, ansVer, gets, lookups, puts and io are
\* history fields: the registry at the call, the origin's answer and version,
\* and the number of GETs, cache lookups, cache writes and default_io calls;
\* found is the entry the cache held at the lookup, atResp the entry it held
\* when the response arrived, putSeq the rank of the load's cache write among
\* all cache writes.
NewLoad(path, pc, snapshot) ==
    [path |-> path, pc |-> pc, uri |-> to_str(path),
     headers |-> snapshot, started |-> snapshot,
     req |-> NoHeaders, cached |-> None, resp |-> None, result |-> Pending,
     ans |-> None, ansVer |-> 0, gets |-> 0, lookups |-> 0, puts |-> 0, io |-> 0,
     alone |-> \A k \in 1 .. Len(loads) : loads[k].pc = "done",
     found |-> None, atResp |-> None, putSeq |-> 0, guard |-> GuardAfterSnapshot]

\* LoadPathBody without the is_http test: every path is fetched.
LoadPathBody_AlwaysFetches(path) ==
    loads' = Append(loads, NewLoad(path, IF wasm THEN "cache_open" ELSE "get", headers))

\* load_path(path), lines 27-99: a remote path starts a fetch future with a
\* snapshot of the headers; any other path is handed to default_io.
LoadPathBody(path) ==
    IF IsHttp[path]
    THEN loads' = Append(loads, NewLoad(path, IF wasm THEN "cache_open" ELSE "get", headers))
    ELSE \E r \in {Ok(<<7>>), NotFound(path)} :
            loads' = Append(loads, [NewLoad(path, "done", NoHeaders)
                                        EXCEPT !.result = r, !.io = 1])

LoadPath(path) ==
    /\ Len(loads) < MaxLoads
    /\ LoadPathBody(path)
    /\ UNCHANGED <<wasm, headers, cache, origin, watcher, watched, last>>

\* get_chache_and_set_header, lines 167-173: caches.open(cache_name).await.unwrap()
CacheOpen(i) ==
    /\ loads[i].pc = "cache_open"
    /\ \/ loads' = [loads EXCEPT ![i].pc = "cache_match"]
       \/ loads' = [loads EXCEPT ![i].pc = "done", ![i].result = Panicked("cache_open")]
    /\ UNCHANGED <<wasm, headers, cache, origin, watcher, watched, last>>

\* get_chache_and_set_header, lines 176-196: what it returns for the entry found.
CachedResponse(c, uri) ==
    IF CacheHas(c, uri) /\ HasHeader(CacheGet(c, uri).headers, H_ETAG)
    THEN Some(CacheGet(c, uri))
    ELSE None

\* PreparedRequest without the If-None-Match of lines 187-191.
PreparedRequest_NoRevalidation(hs, cached) == hs

\* lines 39-43 and 187-191: the request's headers after the lookup.
PreparedRequest(hs, cached) ==
    IF IsSome(cached)
    THEN SetHeader(hs, H_INM, GetHeader(Unwrap(cached).headers, H_ETAG))
    ELSE hs

\* cache.match_with_str(uri).await.unwrap(), then the request is sent (line 49).
CacheMatch(i) ==
    /\ loads[i].pc = "cache_match"
    /\ \/ LET c == CachedResponse(cache, loads[i].uri)
          IN loads' = [loads EXCEPT ![i].pc = "fetch",
                                    ![i].cached = c,
                                    ![i].found = IF CacheHas(cache, loads[i].uri)
                                                 THEN Some(CacheGet(cache, loads[i].uri))
                                                 ELSE None,
                                    ![i].lookups = @ + 1,
                                    ![i].req = PreparedRequest(RequestHeaders(loads[i].headers, headers), c),
                                    ![i].gets = @ + 1]
       \/ loads' = [loads EXCEPT ![i].pc = "done", ![i].result = Panicked("cache_match")]
    /\ UNCHANGED <<wasm, headers, cache, origin, watcher, watched, last>>

\* ChosenResponse with the 304 response itself kept on a cache hit.
ChosenResponse_KeepsReceived(cached, response) == response

\* lines 61-63: the response the load goes on with, given the lookup's result
\* and the response received.
ChosenResponse(cached, response) ==
    IF IsSome(cached) /\ response.status = NOT_MODIFIED
    THEN Unwrap(cached)
    ELSE response

\* SavesResponse that stores only responses with status 200.
SavesResponse_OnlyOk(cached, response) == response.status = OK_STATUS

\* lines 61-72: whether the response received is written to the cache.
SavesResponse(cached, response) ==
    ~(IsSome(cached) /\ response.status = NOT_MODIFIED)

\* Fetch reading the entry again when the 304 arrives instead of keeping the
\* response returned by the lookup.
Fetch_RereadsCache(i) ==
    /\ loads[i].pc = "fetch"
    /\ \/ loads' = [loads EXCEPT ![i].pc = "done", ![i].result = NotFound(loads[i].path)]
       \/ \E r \in OriginAnswers(loads[i].req, origin) :
            loads' = [loads EXCEPT ![i].ans = Some(r),
                                   ![i].ansVer = origin,
                                   ![i].atResp = IF CacheHas(cache, loads[i].uri)
                                                  THEN Some(CacheGet(cache, loads[i].uri))
                                                  ELSE None,
                                   ![i].resp = IF IsSome(loads[i].cached)
                                                  /\ r.status = NOT_MODIFIED
                                               THEN Some(CacheGet(cache, loads[i].uri))
                                               ELSE Some(r),
                                   ![i].pc = IF SavesResponse(loads[i].cached, r)
                                              THEN "save_open" ELSE "array_buffer"]
    /\ UNCHANGED <<wasm, headers, cache, origin, watcher, watched, last>>

\* window.fetch_with_request(&request).await, lines 49-72: the fetch is rejected
\* (NotFound), or the origin answers and the response is chosen.
Fetch(i) ==
    /\ loads[i].pc = "fetch"
    /\ \/ loads' = [loads EXCEPT ![i].pc = "done", ![i].result = NotFound(loads[i].path)]
       \/ \E r \in OriginAnswers(loads[i].req, origin) :
            loads' = [loads EXCEPT ![i].ans = Some(r),
                                   ![i].ansVer = origin,
                                   ![i].atResp = IF CacheHas(cache, loads[i].uri)
                                                  THEN Some(CacheGet(cache, loads[i].uri))
                                                  ELSE None,
                                   ![i].resp = Some(ChosenResponse(loads[i].cached, r)),
                                   ![i].pc = IF SavesResponse(loads[i].cached, r)
                                              THEN "save_open" ELSE "array_buffer"]
    /\ UNCHANGED <<wasm, headers, cache, origin, watcher, watched, last>>

\* save_response_to_cache, lines 204-210: caches.open(cache_name).await.unwrap()
SaveOpen(i) ==
    /\ loads[i].pc = "save_open"
    /\ \/ loads' = [loads EXCEPT ![i].pc = "save_put"]
       \/ loads' = [loads EXCEPT ![i].pc = "done", ![i].result = Panicked("save_open")]
    /\ UNCHANGED <<wasm, headers, cache, origin, watcher, watched, last>>

\* save_response_to_cache, lines 212-214: cache.put(request, response).await.unwrap()
SavePut(i) ==
    /\ loads[i].pc = "save_put"
    /\ \/ /\ cache' = CachePut(cache, loads[i].uri, Unwrap(loads[i].resp))
          /\ loads' = [loads EXCEPT ![i].pc = "array_buffer", ![i].puts = @ + 1,
                                    ![i].putSeq = 1 + Cardinality({k \in 1 .. Len(loads) :
                                                                     loads[k].puts >= 1})]
       \/ /\ loads' = [loads EXCEPT ![i].pc = "done", ![i].result = Panicked("save_put")]
          /\ UNCHANGED cache
    /\ UNCHANGED <<wasm, headers, origin, watcher, watched, last>>

\* lines 74-80: response.array_buffer().unwrap() awaited and unwrapped.
ArrayBuffer(i) ==
    /\ loads[i].pc = "array_buffer"
    /\ \/ loads' = [loads EXCEPT ![i].pc = "done",
                                 ![i].result = Ok(Unwrap(loads[i].resp).body)]
       \/ loads' = [loads EXCEPT ![i].pc = "done", ![i].result = Panicked("array_buffer")]
    /\ UNCHANGED <<wasm, headers, cache, origin, watcher, watched, last>>

\* The headers of the native request, lines 85-86: surf::get(uri) is given none.
NativeRequest(hs) == NoHeaders

\* lines 85-87: surf::get(uri).await, an error mapped to NotFound.
Get(i) ==
    /\ loads[i].pc = "get"
    /\ LET req == NativeRequest(RequestHeaders(loads[i].headers, headers))
       IN \/ loads' = [loads EXCEPT ![i].pc = "done", ![i].req = req, ![i].gets = @ + 1,
                                    ![i].result = NotFound(loads[i].path)]
          \/ \E r \in OriginAnswers(req, origin) :
               loads' = [loads EXCEPT ![i].pc = "body_bytes", ![i].req = req,
                                      ![i].gets = @ + 1,
                                      ![i].ans = Some(r), ![i].ansVer = origin,
                                      ![i].resp = Some(r)]
    /\ UNCHANGED <<wasm, headers, cache, origin, watcher, watched, last>>

\* lines 88-92: body_bytes().await, an error mapped to NotFound.
BodyBytes(i) ==
    /\ loads[i].pc = "body_bytes"
    /\ \/ loads' = [loads EXCEPT ![i].pc = "done",
                                 ![i].result = Ok(Unwrap(loads[i].resp).body)]
       \/ loads' = [loads EXCEPT ![i].pc = "done", ![i].result = NotFound(loads[i].path)]
    /\ UNCHANGED <<wasm, headers, cache, origin, watcher, watched, last>>

(***************************************************************************)
(* The host and the origin.                                                *)
(***************************************************************************)
\* The values the host gives a header: X-Test takes 1 .. MaxVal, and
\* If-None-Match takes the ETag of version 1 of the origin's resource.
HeaderValues(n) == IF n = H_INM THEN {1} ELSE 1 .. MaxVal

\* The host inserts or overwrites a header through the shared handle
\* (headers.write().unwrap().insert(name, value)): the write lock is granted
\* when no read guard is held.
HeaderSet(n, v) ==
    /\ \A k \in 1 .. Len(loads) : ~loads[k].guard
    /\ headers' = SetHeader(headers, n, v)
    /\ UNCHANGED <<wasm, cache, origin, loads, watcher, watched, last>>

\* The origin replaces the resource by another version.
OriginUpdate(v) ==
    /\ v # origin
    /\ origin' = v
    /\ UNCHANGED <<wasm, headers, cache, loads, watcher, watched, last>>

(***************************************************************************)
(* The synchronous operations of the router.  default_io (Bevy's platform  *)
(* AssetIo) is the environment: each call to it returns any of its results.*)
(***************************************************************************)
\* read_directory, lines 101-106
ReadDirectory(path) ==
    /\ \E r \in {"Ok", "Err"} :
         last' = Call("read_directory", path, r, <<>>,
                      Some(IoCall("read_directory", path, r)), None)
    /\ UNCHANGED <<wasm, headers, cache, origin, loads, watcher, watched>>

\* IsDirCall without the is_http test.
IsDirCall_AlwaysDelegates(path, r) ==
    Call("is_dir", path, r, <<>>, Some(IoCall("is_dir", path, r)), None)

\* is_dir, lines 142-148: what it returns and the default_io call it makes,
\* r being what default_io.is_dir would answer.
IsDirCall(path, r) ==
    IF IsHttp[path]
    THEN Call("is_dir", path, "false", <<>>, None, None)
    ELSE Call("is_dir", path, r, <<>>, Some(IoCall("is_dir", path, r)), None)

IsDir(path) ==
    /\ \E r \in {"true", "false"} : last' = IsDirCall(path, r)
    /\ UNCHANGED <<wasm, headers, cache, origin, loads, watcher, watched>>

\* get_metadata, lines 150-152
GetMetadata(path) ==
    /\ \E r \in {"Ok", "Err"} :
         last' = Call("get_metadata", path, r, <<>>,
                      Some(IoCall("get_metadata", path, r)), None)
    /\ UNCHANGED <<wasm, headers, cache, origin, loads, watcher, watched>>

\* FilesystemWatcher::watch(absolute_path): registers the path, or fails.
WatcherWatch(abs, ok) == IF ok THEN watched \cup {abs} ELSE watched

\* watch_path_for_changes handing the watcher the path as given instead of
\* root_path.join(path).
WatchPathForChanges_WatchesRelative(path) ==
    /\ IF IsHttp[path]
       THEN /\ last' = Call("watch_path_for_changes", path, "Ok", <<>>, None, None)
            /\ UNCHANGED watched
       ELSE IF watcher
            THEN \E ok \in BOOLEAN :
                   /\ watched' = WatcherWatch(path, ok)
                   /\ last' = IF ok
                              THEN Call("watch_path_for_changes", path, "Ok", <<>>,
                                        None, Some(path))
                              ELSE Call("watch_path_for_changes", path, "PathWatchError",
                                        path, None, Some(path))
            ELSE /\ last' = Call("watch_path_for_changes", path, "Ok", <<>>, None, None)
                 /\ UNCHANGED watched
    /\ UNCHANGED <<wasm, headers, cache, origin, loads, watcher>>

\* watch_path_for_changes without the is_http test of line 109.
WatchPathForChanges_NoRemoteTest(path) ==
    /\ LET absolute_path == Join(root_path, path)
       IN IF watcher
          THEN \E ok \in BOOLEAN :
                 /\ watched' = WatcherWatch(absolute_path, ok)
                 /\ last' = IF ok
                            THEN Call("watch_path_for_changes", path, "Ok", <<>>,
                                      None, Some(absolute_path))
                            ELSE Call("watch_path_for_changes", path, "PathWatchError",
                                      absolute_path, None, Some(absolute_path))
          ELSE /\ last' = Call("watch_path_for_changes", path, "Ok", <<>>, None, None)
               /\ UNCHANGED watched
    /\ UNCHANGED <<wasm, headers, cache, origin, loads, watcher>>

\* watch_path_for_changes, lines 108-135
WatchPathForChanges(path) ==
    /\ IF IsHttp[path]
       THEN /\ last' = Call("watch_path_for_changes", path, "Ok", <<>>, None, None)
            /\ UNCHANGED watched
       ELSE LET absolute_path == Join(root_path, path)
            IN IF watcher
               THEN \E ok \in BOOLEAN :
                      /\ watched' = WatcherWatch(absolute_path, ok)
                      /\ last' = IF ok
                                 THEN Call("watch_path_for_changes", path, "Ok", <<>>,
                                           None, Some(absolute_path))
                                 ELSE Call("watch_path_for_changes", path, "PathWatchError",
                                           absolute_path, None, Some(absolute_path))
               ELSE /\ last' = Call("watch_path_for_changes", path, "Ok", <<>>, None, None)
                    /\ UNCHANGED watched
    /\ UNCHANGED <<wasm, headers, cache, origin, loads, watcher>>

\* watch_for_changes forwarding to default_io.watch_for_changes.
WatchForChanges_Delegates ==
    /\ \E r \in {"Ok", "Err"} :
         last' = Call("watch_for_changes", <<>>, r, <<>>,
                      Some(IoCall("watch_for_changes", <<>>, r)), None)
    /\ UNCHANGED <<wasm, headers, cache, origin, loads, watcher, watched>>

\* watch_for_changes, lines 137-140
WatchForChanges ==
    /\ last' = Call("watch_for_changes", <<>>, "Ok", <<>>, None, None)
    /\ UNCHANGED <<wasm, headers, cache, origin, loads, watcher, watched>>

\* load_path interleaved with the synchronous operations.
RouterLoadPath(path) ==
    /\ Len(loads) < MaxRouterLoads
    /\ LoadPathBody(path)
    /\ UNCHANGED <<wasm, headers, cache, origin, watcher, watched, last>>

Next ==
    \/ \E p \in LoadPaths : LoadPath(p)
    \/ \E i \in 1 .. Len(loads) : CacheOpen(i)
    \/ \E i \in 1 .. Len(loads) : CacheMatch(i)
    \/ \E i \in 1 .. Len(loads) : Fetch(i)
    \/ \E i \in 1 .. Len(loads) : SaveOpen(i)
    \/ \E i \in 1 .. Len(loads) : SavePut(i)
    \/ \E i \in 1 .. Len(loads) : ArrayBuffer(i)
    \/ \E i \in 1 .. Len(loads) : Get(i)
    \/ \E i \in 1 .. Len(loads) : BodyBytes(i)
    \/ \E n \in {H_TEST, H_INM} : \E v \in HeaderValues(n) : HeaderSet(n, v)
    \/ \E v \in Versions : OriginUpdate(v)

Spec == Init /\ [][Next]_vars

\* A session that starts with an entry left in the cache store by an earlier
\* session: a 200 response of some version of the origin, stored under the uri.
WarmEntries == {Response(OK_STATUS, EtagHeaders(v), Body(v)) : v \in Versions}

InitWarm ==
    /\ wasm = TRUE
    /\ headers = NoHeaders
    /\ cache \in {{<<to_str(P_http_a), e>>} : e \in WarmEntries}
    /\ origin \in Versions
    /\ loads = <<>>
    /\ watcher \in BOOLEAN
    /\ watched = {}
    /\ last = NoCall

\* The steps of the wasm32 build.
WarmNext ==
    \/ \E p \in LoadPaths : LoadPath(p)
    \/ \E i \in 1 .. Len(loads) : CacheOpen(i)
    \/ \E i \in 1 .. Len(loads) : CacheMatch(i)
    \/ \E i \in 1 .. Len(loads) : Fetch(i)
    \/ \E i \in 1 .. Len(loads) : SaveOpen(i)
    \/ \E i \in 1 .. Len(loads) : SavePut(i)
    \/ \E i \in 1 .. Len(loads) : ArrayBuffer(i)
    \/ \E n \in {H_TEST, H_INM} : \E v \in HeaderValues(n) : HeaderSet(n, v)
    \/ \E v \in Versions : OriginUpdate(v)

SpecWarm == InitWarm /\ [][WarmNext]_vars

\* The router's operations on every sample path, with the loads they start.
\* The synchronous operations write only last and watched, which no step of a
\* load reads, so they are left out of Next.
RouterNext ==
    \/ \E p \in SamplePaths : ReadDirectory(p)
    \/ \E p \in SamplePaths : IsDir(p)
    \/ \E p \in SamplePaths : GetMetadata(p)
    \/ \E p \in WatchPaths : WatchPathForChanges(p)
    \/ WatchForChanges
    \/ \E p \in SamplePaths : RouterLoadPath(p)
    \/ \E i \in 1 .. Len(loads) : CacheOpen(i)
    \/ \E i \in 1 .. Len(loads) : CacheMatch(i)
    \/ \E i \in 1 .. Len(loads) : Fetch(i)
    \/ \E i \in 1 .. Len(loads) : SaveOpen(i)
    \/ \E i \in 1 .. Len(loads) : SavePut(i)
    \/ \E i \in 1 .. Len(loads) : ArrayBuffer(i)
    \/ \E i \in 1 .. Len(loads) : Get(i)
    \/ \E i \in 1 .. Len(loads) : BodyBytes(i)

SpecRouter == Init /\ [][RouterNext]_vars

(***************************************************************************)
(* Properties.                                                             *)
(***************************************************************************)
LoadIds == 1 .. Len(loads)
Remote(l) == l.io = 0
Done(l) == l.pc = "done"
Answered(l) == IsSome(l.ans)
Got304(l) == Answered(l) /\ Unwrap(l.ans).status = NOT_MODIFIED
Hit304(l) == Got304(l) /\ IsSome(l.cached)
Miss304(l) == Got304(l) /\ ~IsSome(l.cached)
CachePanic(l) ==
    l.result.kind = "Panic"
    /\ l.result.at \in {"cache_open", "cache_match", "save_open", "save_put"}

\* The classification a comparison of the string forms would make.
StrIsRemote(p) == StrStartsWith(p, S_http) \/ StrStartsWith(p, S_https)

\* C1: a load whose lookup found an entry with an ETag and whose conditional
\* GET was answered 304 returns exactly the bytes of that entry, and no step
\* of such a load changes the cache.
C1_NotModifiedReusesEntry ==
    /\ [](\A i \in LoadIds :
            Hit304(loads[i]) /\ loads[i].result.kind = "Ok"
                => loads[i].result.bytes = Unwrap(loads[i].cached).body)
    /\ [][\A i \in LoadIds :
            Hit304(loads'[i]) /\ loads'[i] # loads[i] => cache' = cache]_vars

\* A 304 on a cache hit has returned the non-empty body of the entry, which
\* is still the entry of the uri.
C1_Witness ==
    \E i \in LoadIds :
        /\ Hit304(loads[i])
        /\ loads[i].result.kind = "Ok"
        /\ loads[i].result.bytes # <<>>
        /\ CacheHas(cache, loads[i].uri)
        /\ CacheGet(cache, loads[i].uri) = Unwrap(loads[i].cached)

\* Loads i and j of one remote uri are successive: i has returned its bytes
\* before j is called, no load is called in between, the registry holds the
\* same headers at both calls, and the origin has answered j.
Successive(i, j) ==
    /\ j = i + 1
    /\ Remote(loads[i]) /\ Remote(loads[j])
    /\ loads[i].uri = loads[j].uri
    /\ loads[i].result.kind = "Ok"
    /\ loads[j].alone
    /\ loads[i].started = loads[j].started
    /\ Answered(loads[i]) /\ Answered(loads[j])

\* The origin reports to j the ETag it reported to i.
SameEtag(i, j) ==
    LET hi == Unwrap(loads[i].ans).headers
        hj == Unwrap(loads[j].ans).headers
    IN /\ HasHeader(hi, H_ETAG) /\ HasHeader(hj, H_ETAG)
       /\ GetHeader(hi, H_ETAG) = GetHeader(hj, H_ETAG)

\* What the origin serves when it answers l: the resource, or an error page.
Served(l) ==
    IF Unwrap(l.ans).status = ERR_STATUS
    THEN Response(ERR_STATUS, NoHeaders, ErrBody)
    ELSE Response(OK_STATUS, EtagHeaders(l.ansVer), Body(l.ansVer))

\* C2: with a cache store, the second of two successive loads of a uri is
\* derived from a 304 iff the origin still reports the same ETag; otherwise
\* it returns the body the origin now serves and the entry of the uri is
\* overwritten with that response.
C2_SecondLoadRevalidates ==
    wasm =>
      \A i, j \in LoadIds :
        Successive(i, j) =>
          /\ Got304(loads[j]) <=> SameEtag(i, j)
          /\ ~SameEtag(i, j) /\ loads[j].result.kind = "Ok" =>
                /\ loads[j].result.bytes = Served(loads[j]).body
                /\ j = Len(loads) =>
                      /\ CacheHas(cache, loads[j].uri)
                      /\ CacheGet(cache, loads[j].uri) = Served(loads[j])

\* C3: a load answered 304 whose lookup gave no cache hit never returns a
\* success value; when it completes (without a panic) it has failed with
\* NotFound.
C3_NotModifiedWithoutHitFails ==
    \A i \in LoadIds :
        Miss304(loads[i]) =>
            /\ loads[i].result.kind # "Ok"
            /\ Done(loads[i]) /\ loads[i].result.kind # "Panic"
                  => loads[i].result = NotFound(loads[i].path)

\* C4: a failure of the cache (open, lookup or write) never makes a load end
\* in an error or a panic.
C4_CacheFailureIsAbsorbed ==
    \A i \in LoadIds : ~CachePanic(loads[i])

\* C5: the GET of a remote load carries every header the registry held when
\* the load was started, with its value, in both runtimes.
C5_HeadersAreSent ==
    \A i \in LoadIds :
        loads[i].gets >= 1 => \A e \in loads[i].started : e \in loads[i].req

\* C6: whatever is set in the registry while a load is in flight, every
\* header the load sends is a header of the registry as it was when the load
\* was started, or the If-None-Match made from the entry found; the request
\* built from the snapshot (wasm32) is that snapshot with this If-None-Match.
C6_HeadersAreASnapshot ==
    \A i \in LoadIds :
        loads[i].gets >= 1 =>
            /\ \A e \in loads[i].req :
                  \/ e \in loads[i].started
                  \/ /\ IsSome(loads[i].cached)
                     /\ e = <<H_INM, GetHeader(Unwrap(loads[i].cached).headers, H_ETAG)>>
            /\ wasm => \A e \in loads[i].started :
                          e \in loads[i].req \/ (e[1] = H_INM /\ IsSome(loads[i].cached))

\* A request has been sent without a header that the registry has held since
\* the load was started.
C6_Witness ==
    \E i \in LoadIds :
        /\ wasm /\ loads[i].pc = "fetch"
        /\ HasHeader(headers, H_TEST) /\ ~HasHeader(loads[i].started, H_TEST)
        /\ ~HasHeader(loads[i].req, H_TEST)

\* C7: on a path classified as remote, is_dir returns false and calls nothing
\* of default_io, read_directory and get_metadata hand the same path to
\* default_io and return its result, and load_path never calls default_io.
C7_RemoteRouting ==
    /\ last.op = "is_dir" /\ is_http(last.path)
          => last.ret = "false" /\ last.io = None
    /\ last.op \in {"read_directory", "get_metadata"} /\ is_http(last.path)
          => last.io = Some(IoCall(last.op, last.path, last.ret))
    /\ \A i \in LoadIds : is_http(loads[i].path) => loads[i].io = 0

\* is_dir has answered false for a remote path while a load of a remote path
\* has returned bytes.
C7_Witness ==
    /\ last.op = "is_dir" /\ is_http(last.path) /\ last.ret = "false"
    /\ \E i \in LoadIds : is_http(loads[i].path) /\ loads[i].result.kind = "Ok"

\* C8: on a path not classified as remote, read_directory, is_dir and
\* get_metadata hand the same path to default_io and return its result,
\* watch_path_for_changes hands root_path.join(path) to the watcher (when
\* there is one), load_path returns what default_io.load_path returns, and no
\* GET, cache lookup or cache write is made for it.
C8_LocalRouting ==
    /\ last.op \in {"read_directory", "is_dir", "get_metadata"} /\ ~is_http(last.path)
          => last.io = Some(IoCall(last.op, last.path, last.ret))
    /\ last.op = "watch_path_for_changes" /\ ~is_http(last.path)
          => /\ last.io = None
             /\ last.watch = IF watcher THEN Some(Join(root_path, last.path)) ELSE None
             /\ last.ret = "Ok" => last.watch = None \/ Unwrap(last.watch) \in watched
    /\ \A i \in LoadIds :
          ~is_http(loads[i].path) =>
              /\ Done(loads[i]) /\ loads[i].io = 1
              /\ loads[i].result \in {Ok(<<7>>), NotFound(loads[i].path)}
              /\ loads[i].gets = 0 /\ loads[i].lookups = 0 /\ loads[i].puts = 0
    /\ \A e \in cache : is_http(e[1])

\* A load of a local path has returned what default_io returned, and is_dir
\* of a local path what default_io answered.
C8_Witness ==
    /\ last.op = "is_dir" /\ ~is_http(last.path) /\ last.ret = "true"
    /\ \E i \in LoadIds : ~is_http(loads[i].path) /\ loads[i].result.kind = "Ok"

\* C9: a path is treated as remote (is_dir answers without default_io,
\* load_path fetches) iff its string form begins with http:// or https://.
C9_RemoteIffStringPrefix ==
    /\ last.op = "is_dir" => (last.io = None <=> StrIsRemote(last.path))
    /\ \A i \in LoadIds : loads[i].io = 0 <=> StrIsRemote(loads[i].path)

\* C10: a remote load issues exactly one GET, and a load that does not return
\* bytes has failed with NotFound carrying its path (the panics of the cache
\* calls, which are C4's, left aside).
C10_OneGetOrNotFound ==
    \A i \in LoadIds :
        Remote(loads[i]) =>
            /\ loads[i].gets <= 1
            /\ Done(loads[i]) /\ ~CachePanic(loads[i]) =>
                  /\ loads[i].gets = 1
                  /\ \/ loads[i].result.kind = "Ok"
                     \/ loads[i].result = NotFound(loads[i].path)

\* A watch_path_for_changes call was the last synchronous operation.
WatchCall == last.op = "watch_path_for_changes"

C12_RemoteWatchIsNoOp ==
    /\ [](WatchCall /\ is_http(last.path) =>
             last.ret = "Ok" /\ last.io = None /\ last.watch = None)
    /\ [][last'.op = "watch_path_for_changes" /\ is_http(last'.path) /\ last' # last =>
             watched' = watched /\ loads' = loads /\ cache' = cache]_vars

\* A remote path was watched while a watcher with a registration is present.
C12_Witness ==
    /\ WatchCall /\ is_http(last.path)
    /\ watcher /\ watched # {}
    /\ last.ret = "Ok"

\* The load looked its uri up in the cache; the entry it found carried an ETag.
Looked(l) == l.lookups >= 1
FoundEtag(l) == IsSome(l.found) /\ HasHeader(Unwrap(l.found).headers, H_ETAG)

\* The fetcher adds If-None-Match iff the lookup found an entry with an ETag,
\* and then with that ETag; otherwise the request is the snapshot as taken.
ConditionalIffEtagFound(l) ==
    /\ IsSome(l.cached) <=> FoundEtag(l)
    /\ IsSome(l.cached) =>
         /\ l.cached = l.found
         /\ HasHeader(l.req, H_INM)
         /\ GetHeader(l.req, H_INM) = GetHeader(Unwrap(l.found).headers, H_ETAG)
    /\ ~IsSome(l.cached) => l.req = l.started

\* The load found an entry stored without an ETag.
FoundWithoutEtag(l) == IsSome(l.found) /\ ~FoundEtag(l)

\* C13 as stated: the request carries a fetcher-added If-None-Match iff the
\* lookup found an entry with an ETag, with that ETag as its value; a load that
\* finds an entry without ETag does not reuse it and is answered with the full
\* body.
C13_EtaglessEntryAlwaysRefetched ==
    \A i \in LoadIds :
      Looked(loads[i]) =>
        /\ ConditionalIffEtagFound(loads[i])
        /\ FoundWithoutEtag(loads[i]) /\ Answered(loads[i]) =>
             /\ ~Got304(loads[i])
             /\ loads[i].resp = loads[i].ans

\* C13, amended: the request carries a fetcher-added If-None-Match iff the
\* lookup found an entry with an ETag, with that ETag as its value; a load that
\* finds an entry without ETag never goes on with that entry and sends the
\* snapshot unchanged, and is answered with the full body unless the snapshot
\* itself holds an If-None-Match.
C13_ConditionalIffEtagFound ==
    \A i \in LoadIds :
      Looked(loads[i]) =>
        /\ ConditionalIffEtagFound(loads[i])
        /\ FoundWithoutEtag(loads[i]) /\ Answered(loads[i]) =>
             /\ loads[i].resp = loads[i].ans
             /\ ~HasHeader(loads[i].started, H_INM) => ~Got304(loads[i])

\* A load found an entry without ETag, sent no If-None-Match and returned the
\* body fetched again, which differs from the entry's.
C13_Witness ==
    \E j \in LoadIds :
      /\ FoundWithoutEtag(loads[j]) /\ loads[j].result.kind = "Ok"
      /\ loads[j].result.bytes # Unwrap(loads[j].found).body
      /\ ~HasHeader(loads[j].started, H_INM)
      /\ loads[j].result.bytes = Body(loads[j].ansVer)

\* The loads of uri that have written the cache, and the one that wrote last.
Writers(uri) == {k \in LoadIds : loads[k].uri = uri /\ loads[k].puts >= 1}
LastWriter(uri) ==
    CHOOSE k \in Writers(uri) : \A m \in Writers(uri) : loads[m].putSeq <= loads[k].putSeq

\* C14: loads of one uri are not coalesced.  Every load that returns bytes
\* has issued one GET of its own and, when its answer was not a 304, made one
\* cache write of its own; the cache entry of a uri is the response written by
\* the cache write that happened last, whatever the order in which the loads
\* were started.
C14_LoadsNotCoalesced ==
    /\ \A i \in LoadIds :
         Looked(loads[i]) /\ loads[i].result.kind = "Ok" =>
           /\ loads[i].gets = 1
           /\ ~Got304(loads[i]) => loads[i].puts = 1
    /\ \A i \in LoadIds :
         LET uri == loads[i].uri
         IN /\ CacheHas(cache, uri) <=> Writers(uri) # {}
            /\ Writers(uri) # {} =>
                 CacheGet(cache, uri) = Unwrap(loads[LastWriter(uri)].resp)

\* Two overlapping loads were answered differently; the one started second
\* wrote first, and the cache holds what the one started first wrote last.
C14_Witness ==
    /\ Len(loads) = 2
    /\ ~loads[2].alone
    /\ loads[1].uri = loads[2].uri
    /\ loads[1].result.kind = "Ok" /\ loads[2].result.kind = "Ok"
    /\ loads[1].gets = 1 /\ loads[2].gets = 1
    /\ loads[2].putSeq = 1 /\ loads[1].putSeq = 2
    /\ loads[1].resp # loads[2].resp
    /\ CacheGet(cache, loads[1].uri) = Unwrap(loads[1].resp)

\* C15 as stated: watch_for_changes calls the local backend's
\* watch_for_changes and returns its result.
C15_WatchForChangesDelegates ==
    last.op = "watch_for_changes" =>
      /\ IsSome(last.io)
      /\ Unwrap(last.io).op = "watch_for_changes"
      /\ last.ret = Unwrap(last.io).ret

\* C15, amended: watch_for_changes returns Ok without calling the local
\* backend; it installs no remote polling: it starts no load, touches neither
\* the cache nor the watcher's registry, and hands the watcher no path.
C15_WatchForChangesIsNoOp ==
    /\ [](last.op = "watch_for_changes" =>
            last.ret = "Ok" /\ last.io = None /\ last.watch = None)
    /\ [][last'.op = "watch_for_changes" /\ last' # last =>
            loads' = loads /\ cache' = cache /\ watched' = watched]_vars

\* watch_for_changes was called on a router whose watcher holds a registration
\* and which has a remote load in flight.
C15_Witness ==
    /\ last.op = "watch_for_changes"
    /\ watcher /\ watched # {}
    /\ \E i \in LoadIds : Remote(loads[i]) /\ ~Done(loads[i])

\* C16: the cache never holds a 304 response: an entry is written only by a
\* load whose fetch was answered with a status other than 304, and every entry
\* is a response with a status other than 304.
C16_CacheNeverHolds304 ==
    /\ \A e \in cache : e[2].status # NOT_MODIFIED
    /\ \A i \in LoadIds : loads[i].puts >= 1 => ~Got304(loads[i])

\* C17: under every interleaving of loads of one uri and origin updates, a
\* load that succeeds returns the body the origin held when it answered that
\* load's GET, whether the bytes come from the response or, after a 304, from
\* the cache entry.
C17_LoadReturnsOriginBody ==
    \A i \in LoadIds :
      Remote(loads[i]) /\ loads[i].result.kind = "Ok" =>
        /\ Answered(loads[i])
        /\ loads[i].result.bytes = Served(loads[i]).body

\* C18: a load answered 304 after a cache hit returns the bytes of the entry
\* its own lookup read, also when another load has overwritten the entry
\* between that lookup and the arrival of the response.
C18_HitReturnsEntryOfOwnLookup ==
    \A i \in LoadIds :
      Hit304(loads[i]) /\ loads[i].result.kind = "Ok" =>
        loads[i].result.bytes = Unwrap(loads[i].found).body

\* The entry was overwritten between the lookup and the 304, and the load
\* returned the bytes of the entry it had read, not of the one in the cache.
C18_Witness ==
    \E i \in LoadIds :
      /\ Hit304(loads[i]) /\ loads[i].result.kind = "Ok"
      /\ loads[i].atResp # loads[i].found
      /\ loads[i].result.bytes = Unwrap(loads[i].found).body
      /\ loads[i].result.bytes # Unwrap(loads[i].atResp).body

C20_StatusIsNeverAnError ==
    \A i \in LoadIds :
      Remote(loads[i]) =>
        /\ Answered(loads[i]) /\ loads[i].result.kind = "NotFound" => ~wasm
        /\ Answered(loads[i]) /\ ~Got304(loads[i]) /\ loads[i].result.kind = "Ok" =>
             /\ loads[i].result.bytes = Unwrap(loads[i].ans).body
             /\ wasm => /\ loads[i].puts = 1
                        /\ LastWriter(loads[i].uri) = i =>
                             CacheGet(cache, loads[i].uri) = Unwrap(loads[i].ans)

\* A load answered 500 returned the error body as a success and replaced the
\* entry it had found in the cache by the 500 response.
C20_Witness ==
    \E i \in LoadIds :
      /\ wasm /\ Answered(loads[i])
      /\ Unwrap(loads[i].ans).status = ERR_STATUS
      /\ loads[i].result = Ok(ErrBody)
      /\ IsSome(loads[i].found)
      /\ CacheGet(cache, loads[i].uri) = Unwrap(loads[i].ans)
      /\ CacheGet(cache, loads[i].uri) # Unwrap(loads[i].found)
====
